---- MODULE Spec2Model ----
(***************************************************************************)
(* The product poll loop of the two bots of the repository:                *)
(*   testing22.py      (load, fetch one page, iterate forward)              *)
(*   bbbbbaqiap92s.py  (load, fetch newest-first, iterate reversed)         *)
(* One pass: load the dedup file, fetch a page of the catalog, select the  *)
(* products not yet sent, and for each: format, send_to_channel (retrying  *)
(* on RetryAfter), save the id on success, sleep; then sleep the interval. *)
(* The variable impl says which of the two files runs.                     *)
(***************************************************************************)
EXTENDS Integers, Sequences, FiniteSets, TLC

VARIABLES
    impl,          \* which source file runs: "testing22" or "bbbbbaqiap92s"
    serverOrder,   \* the order the catalog server uses when a request names none
    catalog,       \* upstream catalog: product ids in creation order
    file,          \* SENT_IDS_FILE: sequence of lines, each a decimal string
    pc,            \* position of the background coroutine
    sent_ids,      \* local sent_ids of the running pass
    products,      \* local products of the running pass (ids, as fetched)
    new_products,  \* local new_products of the running pass
    i,             \* 1-based position of the for loop over the selection
    payload,       \* arguments of the active send_to_channel call
    attempt,       \* depth of the send_to_channel recursion
    ok,            \* value returned by the last send_to_channel call
    resp,          \* last answer of the channel API to a send
    fetchStatus,   \* outcome of this pass's fetch
    exc,           \* this pass ended in the loop's "except Exception"
    loaded,        \* this pass's load_sent_ids read the file
    faults,        \* history: number of file faults so far
    pass,          \* history: number of the running pass
    succeeded,     \* history: ids for which send_to_channel returned True
    delivered,     \* history: ids in the order send_to_channel returned True
    retry,         \* history: ids whose most recent send_to_channel returned False
    unsaved,       \* history: ids sent with success whose save then failed
    tried,         \* history: ids for which send_to_channel was called this pass
    file0,         \* history: the file when the running pass started
    seenSent,      \* history: ids that were in sent_ids at some selection so far
    killed,        \* history: ids whose send returned True in a process that was
                   \* killed before save_sent_id ran
    selF, selP, selR, selDone,  \* inputs and result of one isolated selection
    recorded,      \* ids handed to save_sent_id in the isolated store run
    reloaded       \* isolated store run: the last load_sent_ids answer (ids), taken
                   \* when the file held n lines

vars == <<impl, serverOrder, catalog, file, pc, sent_ids, products, new_products, i, payload,
          attempt, ok, resp, fetchStatus, exc, loaded, faults, pass, succeeded,
          delivered, retry, unsaved, tried, file0, seenSent, killed, selF, selP,
          selR, selDone,
          recorded, reloaded>>

progVars == <<impl, serverOrder, catalog, file, pc, sent_ids, products, new_products, i, payload,
              attempt, ok, resp, fetchStatus, exc, loaded, faults, pass, succeeded,
              delivered, retry, unsaved, tried, file0, seenSent, killed>>

selVars == <<selF, selP, selR, selDone, recorded, reloaded>>

\* ---------------------------------------------------------------- bounds
MaxCatalog == 3      \* products the catalog may hold
PerPage == 2         \* per_page of the request (100 in the source, scaled)
DefaultPerPage == 1  \* page size the server uses when the request names none
MaxPass == 3         \* passes recorded in the history
RecursionLimit == 2  \* frames of send_to_channel the interpreter lets nest
                     \* (sys.getrecursionlimit() is 1000 in the source, scaled)
MaxFaults == 1       \* file read/write faults
MaxLen == 3          \* length of the sequences given to the isolated selection

Ids == 1..MaxCatalog

T22 == "testing22"
BBB == "bbbbbaqiap92s"

\* ---------------------------------------------------------------- helpers
Range(s) == {s[k] : k \in 1..Len(s)}

Min(a, b) == IF a < b THEN a ELSE b

RECURSIVE Reverse(_)
Reverse(s) == IF s = <<>> THEN <<>> ELSE Append(Reverse(Tail(s)), Head(s))

\* f"{product_id}\n": the decimal digits of the id, most significant first
RECURSIVE IntToStr(_)
IntToStr(n) == IF n < 10 THEN <<n>> ELSE Append(IntToStr(n \div 10), n % 10)

\* an int() that reads only the last digit of the line
StrToIntLastDigit(s) == s[Len(s)]

\* int(line.strip())
RECURSIVE StrToInt(_)
StrToInt(s) ==
    IF Len(s) = 1 THEN s[1]
    ELSE 10 * StrToInt(SubSeq(s, 1, Len(s) - 1)) + s[Len(s)]

\* a load that misses the last line of the file
ParseFileDropsLast(f) == {StrToInt(f[k]) : k \in {j \in 1..(Len(f) - 1) : f[j] # <<>>}}

\* {int(line.strip()) for line in f if line.strip()}
ParseFile(f) == {StrToInt(f[k]) : k \in {j \in 1..Len(f) : f[j] # <<>>}}

\* the ids the durable store holds
Store == ParseFile(file)

\* ---------------------------------------------------------------- catalog API
\* The request as requests.get receives it.  bbbbbaqiap92s.py passes auth= and
\* params= by keyword.  testing22.py hands requests.get, through
\* asyncio.to_thread, ONE positional dict {"auth": ..., "params": ...}: that
\* dict is the params argument, so the query string is
\* auth=<key>&auth=<secret>&params=per_page&params=orderby&params=order,
\* and the request carries no credentials, no per_page and no order
\* (0 and "none" stand for "absent").
Request(im) ==
    IF im = BBB
    THEN [auth |-> TRUE, per_page |-> PerPage, orderby |-> "date", order |-> "desc"]
    ELSE [auth |-> FALSE, per_page |-> 0, orderby |-> "none", order |-> "none"]

\* The page the server answers with: the first n products in the order asked
\* for; a request that names no order or no page size gets the server's own
\* (dflt, DefaultPerPage).
Serve(req, cat, dflt) ==
    LET ord == IF req.order = "none" THEN dflt ELSE req.order
        n == Min(Len(cat), IF req.per_page = 0 THEN DefaultPerPage ELSE req.per_page)
        all == IF ord = "asc" THEN cat ELSE Reverse(cat)
    IN  SubSeq(all, 1, n)

\* ---------------------------------------------------------------- selection
\* a selection that keeps the products already sent
NotSentInverted(P, p) == p \in P

NotSent(P, p) == p \notin P

\* [p for p in products if p["id"] not in sent_ids]
Select(F, P) == SelectSeq(F, LAMBDA p : NotSent(P, p))

\* the order the for loop walks the selection in
Walk(im, sel) == IF im = BBB THEN Reverse(sel) ELSE sel

\* the product of the running iteration
Cur == Walk(impl, new_products)[i]

\* no send_to_channel call is active
NoPayload == [text |-> 0, image |-> 0, link |-> 0]

\* text, image, link: the three arguments made from one product
Format(p) == [text |-> p, image |-> p, link |-> p]

\* a save on a file opened with "w": the earlier lines are gone
AppendLineTruncates(f, pid) == <<IntToStr(pid)>>

\* a save that writes nothing
AppendLineLost(f, pid) == f

\* f.write(f"{product_id}\n") on a file opened for append
AppendLine(f, pid) == Append(f, IntToStr(pid))

\* ---------------------------------------------------------------- state
Init ==
    /\ impl \in {T22, BBB}
    /\ serverOrder \in {"asc", "desc"}
    /\ catalog \in {[k \in 1..n |-> k] : n \in 0..MaxCatalog}
    /\ file = <<>>
    /\ pc = "LOAD"
    /\ sent_ids = {}
    /\ products = <<>>
    /\ new_products = <<>>
    /\ i = 0
    /\ payload = NoPayload
    /\ attempt = 0
    /\ ok = FALSE
    /\ resp = "none"
    /\ fetchStatus = "none"
    /\ exc = FALSE
    /\ loaded = FALSE
    /\ faults = 0
    /\ pass = 1
    /\ succeeded = {}
    /\ delivered = <<>>
    /\ retry = {}
    /\ unsaved = {}
    /\ tried = <<>>
    /\ file0 = <<>>
    /\ seenSent = {}
    /\ killed = {}
    /\ selF = <<>> /\ selP = {} /\ selR = <<>> /\ selDone = FALSE
    /\ recorded = {} /\ reloaded = [n |-> 0, ids |-> {}]

\* a loop without the "except Exception": the exception ends the task
LoopCatchDies == pc' = "DEAD" /\ exc' = TRUE

\* "except Exception" of the loop: the pass is over, the loop goes to sleep
LoopCatch == pc' = "SLEEPING" /\ exc' = TRUE

\* return from the pass
PassReturn == pc' = "SLEEPING" /\ exc' = exc

\* ---------------------------------------------------------------- load
LoadOK ==
    /\ pc = "LOAD"
    /\ sent_ids' = ParseFile(file)
    /\ loaded' = TRUE
    /\ pc' = "FETCH"
    /\ UNCHANGED <<impl, serverOrder, catalog, file, products, new_products, i, payload, attempt,
                   ok, resp, fetchStatus, exc, faults, pass, succeeded, delivered,
                   retry, tried, file0, unsaved, seenSent, killed, selVars>>

\* the file cannot be read (not FileNotFoundError): testing22.py answers the
\* empty set, bbbbbaqiap92s.py lets the exception reach the loop
LoadFault ==
    /\ pc = "LOAD"
    /\ faults < MaxFaults
    /\ faults' = faults + 1
    /\ loaded' = FALSE
    /\ sent_ids' = {}
    /\ IF impl = T22 THEN pc' = "FETCH" /\ exc' = exc ELSE LoopCatch
    /\ UNCHANGED <<impl, serverOrder, catalog, file, products, new_products, i, payload, attempt,
                   ok, resp, fetchStatus, pass, succeeded, delivered,
                   retry, tried, file0, unsaved, seenSent, killed, selVars>>

\* ---------------------------------------------------------------- fetch
FetchOK ==
    /\ pc = "FETCH"
    /\ products' = Serve(Request(impl), catalog, serverOrder)
    /\ fetchStatus' = "ok"
    /\ pc' = "SELECT"
    /\ UNCHANGED <<impl, serverOrder, catalog, file, sent_ids, new_products, i, payload, attempt,
                   ok, resp, exc, loaded, faults, pass, succeeded, delivered,
                   retry, tried, file0, unsaved, seenSent, killed, selVars>>

\* a failed fetch that is tried again at once instead of after the sleep
AfterFetchErrorRetriesNow == pc' = "FETCH" /\ exc' = exc

\* where a failed fetch leaves the pass: testing22.py returns [] and goes on to
\* the (empty) selection, bbbbbaqiap92s.py returns from the pass
AfterFetchError == IF impl = T22 THEN pc' = "SELECT" /\ exc' = exc ELSE PassReturn

\* network, auth or non-2xx: a RequestException
FetchError ==
    /\ pc = "FETCH"
    /\ products' = <<>>
    /\ fetchStatus' = "error"
    /\ AfterFetchError
    /\ UNCHANGED <<impl, serverOrder, catalog, file, sent_ids, new_products, i, payload, attempt,
                   ok, resp, loaded, faults, pass, succeeded, delivered,
                   retry, tried, file0, unsaved, seenSent, killed, selVars>>

\* the payload is not a JSON list of products: testing22.py returns at the
\* isinstance test, bbbbbaqiap92s.py raises out of the pass
FetchMalformed ==
    /\ pc = "FETCH"
    /\ products' = <<>>
    /\ fetchStatus' = "malformed"
    /\ IF impl = T22 THEN PassReturn ELSE LoopCatch
    /\ UNCHANGED <<impl, serverOrder, catalog, file, sent_ids, new_products, i, payload, attempt,
                   ok, resp, loaded, faults, pass, succeeded, delivered,
                   retry, tried, file0, unsaved, seenSent, killed, selVars>>

\* ---------------------------------------------------------------- select
SelectNew ==
    /\ pc = "SELECT"
    /\ new_products' = Select(products, sent_ids)
    /\ seenSent' = seenSent \cup sent_ids
    /\ IF new_products' = <<>>
       THEN PassReturn /\ i' = i
       ELSE pc' = "FORMAT" /\ i' = 1 /\ exc' = exc
    /\ UNCHANGED <<impl, serverOrder, catalog, file, sent_ids, products, payload, attempt,
                   ok, resp, fetchStatus, loaded, faults, pass, succeeded, delivered,
                   retry, tried, file0, unsaved, killed, selVars>>

\* ---------------------------------------------------------------- format
FormatOK ==
    /\ pc = "FORMAT"
    /\ payload' = Format(Cur)
    /\ attempt' = 0
    /\ tried' = Append(tried, Cur)
    /\ pc' = "SEND"
    /\ UNCHANGED <<impl, serverOrder, catalog, file, sent_ids, products, new_products, i,
                   ok, resp, fetchStatus, exc, loaded, faults, pass, succeeded,
                   delivered, retry, file0, unsaved, seenSent, killed, selVars>>

\* a field of the product has a shape the formatting code does not expect
FormatRaise ==
    /\ pc = "FORMAT"
    /\ LoopCatch
    /\ UNCHANGED <<impl, serverOrder, catalog, file, sent_ids, products, new_products, i, payload,
                   attempt, ok, resp, fetchStatus, loaded, faults, pass, succeeded,
                   delivered, retry, tried, file0, unsaved, seenSent, killed, selVars>>

\* ---------------------------------------------------------------- publish
\* a caller that records the id whatever send_to_channel returned
AfterSendAlwaysSave(result) == "SAVE"

\* a caller that ends the pass at the first send that returns False
AfterSendStopsOnFailure(result) == IF result THEN "SAVE" ELSE "SLEEPING"

\* what the caller does with the value send_to_channel returned:
\* "if ok: save_sent_id(pid)", else go on to the sleep between sends
AfterSend(result) == IF result THEN "SAVE" ELSE "DELAY"

\* "except RetryAfter": sleep e.retry_after, then call send_to_channel again
\* with the same text, image and link
OnRetryAfter ==
    /\ pc' = "BACKOFF"
    /\ attempt' = attempt + 1
    /\ ok' = ok
    /\ retry' = retry

\* a failed send whose id is recorded all the same
OnSendErrorRecords ==
    /\ ok' = FALSE
    /\ pc' = "SAVE"
    /\ attempt' = attempt
    /\ retry' = retry \cup {Cur}

\* "except Exception": the call returns False
OnSendError ==
    /\ ok' = FALSE
    /\ pc' = AfterSend(FALSE)
    /\ attempt' = attempt
    /\ retry' = retry \cup {Cur}

\* the send went through: the call returns True
SendOK(track) ==
    /\ pc = "SEND"
    /\ resp' = "ok"
    /\ ok' = TRUE
    /\ pc' = AfterSend(TRUE)
    /\ succeeded' = succeeded \cup {Cur}
    /\ delivered' = IF track THEN Append(delivered, Cur) ELSE delivered
    /\ retry' = retry \ {Cur}
    /\ UNCHANGED <<impl, serverOrder, catalog, file, sent_ids, products, new_products, i, payload,
                   attempt, fetchStatus, exc, loaded, faults, pass, tried, file0,
                   unsaved, seenSent, killed, selVars>>

\* the channel answers "retry after N seconds"
SendRetryAfter ==
    /\ pc = "SEND"
    /\ resp' = "retry_after"
    /\ OnRetryAfter
    /\ UNCHANGED <<impl, serverOrder, catalog, file, sent_ids, products, new_products, i, payload,
                   fetchStatus, exc, loaded, faults, pass, succeeded, delivered,
                   tried, file0, unsaved, seenSent, killed, selVars>>

\* any other failure of the send
SendError ==
    /\ pc = "SEND"
    /\ resp' = "error"
    /\ OnSendError
    /\ UNCHANGED <<impl, serverOrder, catalog, file, sent_ids, products, new_products, i, payload,
                   fetchStatus, exc, loaded, faults, pass, succeeded, delivered,
                   tried, file0, unsaved, seenSent, killed, selVars>>

\* asyncio.sleep(e.retry_after) is over: the recursive call sends again
Backoff ==
    /\ pc = "BACKOFF"
    /\ attempt < RecursionLimit
    /\ pc' = "SEND"
    /\ UNCHANGED <<impl, serverOrder, catalog, file, sent_ids, products, new_products, i, payload,
                   attempt, ok, resp, fetchStatus, exc, loaded, faults, pass,
                   succeeded, delivered, retry, tried, file0, unsaved, seenSent, killed, selVars>>

\* asyncio.sleep(e.retry_after) is over and the recursion is as deep as the
\* interpreter allows: RecursionError.  Raised below the "try" of the
\* innermost call (inside the bot's send), it is caught by that call's
\* "except Exception" and False is returned through every frame.
RecursionErrorCaught ==
    /\ pc = "BACKOFF"
    /\ attempt = RecursionLimit
    /\ ok' = FALSE
    /\ pc' = AfterSend(FALSE)
    /\ retry' = retry \cup {Cur}
    /\ UNCHANGED <<impl, serverOrder, catalog, file, sent_ids, products, new_products, i, payload,
                   attempt, resp, fetchStatus, exc, loaded, faults, pass,
                   succeeded, delivered, tried, file0, unsaved, seenSent, killed, selVars>>

\* The same RecursionError raised outside the "try" (on entering the call, or
\* while it builds the keyboard): every frame is inside its
\* "except RetryAfter" handler, so nothing catches it before the loop.
RecursionErrorRaised ==
    /\ pc = "BACKOFF"
    /\ attempt = RecursionLimit
    /\ LoopCatch
    /\ UNCHANGED <<impl, serverOrder, catalog, file, sent_ids, products, new_products, i, payload,
                   attempt, ok, resp, fetchStatus, loaded, faults, pass,
                   succeeded, delivered, retry, tried, file0, unsaved, seenSent, killed, selVars>>

\* ---------------------------------------------------------------- record
SaveOK ==
    /\ pc = "SAVE"
    /\ file' = AppendLine(file, Cur)
    /\ unsaved' = unsaved \ {Cur}
    /\ pc' = "DELAY"
    /\ UNCHANGED <<impl, serverOrder, catalog, sent_ids, products, new_products, i, payload,
                   attempt, ok, resp, fetchStatus, exc, loaded, faults, pass,
                   succeeded, delivered, retry, tried, file0, seenSent, killed, selVars>>

\* the file cannot be written: testing22.py prints and goes on,
\* bbbbbaqiap92s.py lets the exception reach the loop
SaveFault ==
    /\ pc = "SAVE"
    /\ faults < MaxFaults
    /\ faults' = faults + 1
    /\ unsaved' = unsaved \cup {Cur}
    /\ IF impl = T22 THEN pc' = "DELAY" /\ exc' = exc ELSE LoopCatch
    /\ UNCHANGED <<impl, serverOrder, catalog, file, sent_ids, products, new_products, i, payload,
                   attempt, ok, resp, fetchStatus, loaded, pass,
                   succeeded, delivered, retry, tried, file0, seenSent, killed, selVars>>

\* the sleep between two sends is over: next product, or the pass is done
Delay ==
    /\ pc = "DELAY"
    /\ i' = i + 1
    /\ IF i + 1 > Len(new_products) THEN PassReturn ELSE pc' = "FORMAT" /\ exc' = exc
    /\ UNCHANGED <<impl, serverOrder, catalog, file, sent_ids, products, new_products, payload,
                   attempt, ok, resp, fetchStatus, loaded, faults, pass,
                   succeeded, delivered, retry, tried, file0, unsaved, seenSent, killed, selVars>>

\* ---------------------------------------------------------------- loop
\* asyncio.sleep(CHECK_INTERVAL_SECONDS) is over: "while True" starts a pass
Wake(track) ==
    /\ pc = "SLEEPING"
    /\ track => pass < MaxPass
    /\ pass' = IF track THEN pass + 1 ELSE pass
    /\ pc' = "LOAD"
    /\ sent_ids' = {}
    /\ products' = <<>>
    /\ new_products' = <<>>
    /\ i' = 0
    /\ payload' = NoPayload
    /\ attempt' = 0
    /\ ok' = FALSE
    /\ resp' = "none"
    /\ fetchStatus' = "none"
    /\ exc' = FALSE
    /\ loaded' = FALSE
    /\ tried' = <<>>
    /\ file0' = file
    /\ UNCHANGED <<impl, serverOrder, catalog, file, faults, succeeded, delivered, retry, unsaved, seenSent, killed, selVars>>

\* a product is added upstream (the catalog is read only by a fetch, so it is
\* enough to let it grow while the loop sleeps)
AddProduct ==
    /\ pc = "SLEEPING"
    /\ Len(catalog) < MaxCatalog
    /\ catalog' = Append(catalog, Len(catalog) + 1)
    /\ UNCHANGED <<impl, serverOrder, file, pc, sent_ids, products, new_products, i, payload,
                   attempt, ok, resp, fetchStatus, exc, loaded, faults, pass,
                   succeeded, delivered, retry, tried, file0, unsaved, seenSent, killed, selVars>>

\* ---------------------------------------------------------------- crash
\* The process is killed at any point and started again: every local of the
\* coroutine is gone, the loop starts with a load, and the file is f.
Restart(f) ==
    /\ pass < MaxPass
    /\ pass' = pass + 1
    /\ killed' = IF pc = "SAVE" THEN killed \cup {Cur} ELSE killed
    /\ unsaved' = IF pc = "SAVE" THEN unsaved \cup {Cur} ELSE unsaved
    /\ file' = f
    /\ file0' = f
    /\ pc' = "LOAD"
    /\ sent_ids' = {}
    /\ products' = <<>>
    /\ new_products' = <<>>
    /\ i' = 0
    /\ payload' = NoPayload
    /\ attempt' = 0
    /\ ok' = FALSE
    /\ resp' = "none"
    /\ fetchStatus' = "none"
    /\ exc' = FALSE
    /\ loaded' = FALSE
    /\ tried' = <<>>
    /\ UNCHANGED <<impl, serverOrder, catalog, faults, succeeded, delivered, retry,
                   seenSent, selVars>>

\* a kill that takes the dedup file with it
KillLosesStore == Restart(<<>>)

\* the file is on disk and survives the kill
Kill == Restart(file)

Step(track) ==
    \/ LoadOK \/ LoadFault
    \/ FetchOK \/ FetchError \/ FetchMalformed
    \/ SelectNew
    \/ FormatOK \/ FormatRaise
    \/ SendOK(track) \/ SendRetryAfter \/ SendError \/ Backoff
    \/ RecursionErrorCaught \/ RecursionErrorRaised
    \/ SaveOK \/ SaveFault
    \/ Delay
    \/ Wake(track)
    \/ AddProduct

Next == Step(TRUE)

Spec == Init /\ [][Next]_vars

\* the loop without the history of passes and deliveries: it runs for ever
NextLive == Step(FALSE)

\* the event loop runs the coroutine and every sleep ends; each publish call
\* returns (with True or with False)
LoopSpec ==
    /\ Init
    /\ [][NextLive]_vars
    /\ WF_vars(NextLive)
    /\ SF_vars(SendOK(FALSE) \/ SendError)

\* as LoopSpec, and moreover: the file is read and written, fetches succeed,
\* products are well formed and the send of each product succeeds, each of
\* them again and again
LiveSpec ==
    /\ Init
    /\ [][NextLive]_vars
    /\ WF_vars(NextLive)
    /\ SF_vars(LoadOK)
    /\ SF_vars(FetchOK)
    /\ SF_vars(FormatOK)
    /\ SF_vars(SaveOK)
    /\ \A x \in Ids : SF_vars(SendOK(FALSE) /\ payload = Format(x))

\* ---------------------------------------------------------------- selection alone
InitSel ==
    /\ impl \in {T22, BBB}
    /\ serverOrder \in {"asc", "desc"}
    /\ catalog = <<>>
    /\ file = <<>>
    /\ pc = "LOAD"
    /\ sent_ids = {}
    /\ products = <<>>
    /\ new_products = <<>>
    /\ i = 0
    /\ payload = NoPayload
    /\ attempt = 0
    /\ ok = FALSE
    /\ resp = "none"
    /\ fetchStatus = "none"
    /\ exc = FALSE
    /\ loaded = FALSE
    /\ faults = 0
    /\ pass = 1
    /\ succeeded = {}
    /\ delivered = <<>>
    /\ retry = {}
    /\ unsaved = {}
    /\ tried = <<>>
    /\ file0 = <<>>
    /\ seenSent = {}
    /\ killed = {}
    /\ recorded = {} /\ reloaded = [n |-> 0, ids |-> {}]
    /\ selF \in UNION {[1..n -> Ids] : n \in 0..MaxLen}
    /\ selP \in SUBSET Ids
    /\ selR = <<>>
    /\ selDone = FALSE

\* one evaluation of the comprehension: it builds a new list and touches
\* neither products nor sent_ids
ApplySelect ==
    /\ ~selDone
    /\ selR' = Select(selF, selP)
    /\ selDone' = TRUE
    /\ UNCHANGED <<selF, selP, recorded, reloaded, progVars>>

SelSpec == InitSel /\ [][ApplySelect]_vars

\* the loop with kills and restarts of the process
NextCrash == Next \/ Kill

CrashSpec == Init /\ [][NextCrash]_vars

\* ---------------------------------------------------------------- claims
\* the pass is inside the for loop over the selection
InLoop == pc \in {"FORMAT", "SEND", "BACKOFF", "SAVE", "DELAY"}

\* positions of the walk whose send_to_channel call has not yet returned
Pending ==
    IF pc \in {"FORMAT", "SEND", "BACKOFF"} THEN i..Len(new_products)
    ELSE IF pc \in {"SAVE", "DELAY"} THEN (i + 1)..Len(new_products)
    ELSE {}

\* C1: every identifier in the durable store is one for which an earlier
\* send_to_channel call returned True; nothing is recorded for a product whose
\* send returned False or was never attempted.
C1_StoreOnlySuccess == Store \subseteq succeeded

\* C1 witness: one product is recorded while the send of another one failed.
C1_Witness ==
    /\ Store # {}
    /\ \E x \in retry : x \notin Store /\ x \notin succeeded
    /\ \E y \in Range(catalog) : y \notin Range(tried) /\ y \notin succeeded

\* C2 as stated: once send_to_channel returned True for X, X is in the store
\* as soon as the save step is over, and no later pass selects X.
C2_Original ==
    /\ \A x \in succeeded : x \in Store \/ (pc = "SAVE" /\ Cur = x)
    /\ \A k \in Pending : Walk(impl, new_products)[k] \notin succeeded

\* C2 amended: once send_to_channel returned True for X and the write of X's
\* line did not fail, X is in the store as soon as the save step is over; and
\* no later pass whose load read the file selects X, even when X is in the
\* fetched page.
C2_RecordedAfterSuccess ==
    /\ \A x \in succeeded \ unsaved : x \in Store \/ (pc = "SAVE" /\ Cur = x)
    /\ loaded =>
         \A k \in Pending : Walk(impl, new_products)[k] \notin succeeded \ unsaved

\* C2 witness: in a later pass a product sent and recorded earlier is in the
\* fetched page and is not selected, while another product is.
C2_Witness ==
    /\ pass >= 2
    /\ loaded
    /\ InLoop
    /\ \E x \in succeeded \ unsaved :
         /\ x \in Range(products)
         /\ x \notin Range(new_products)
         /\ x \in ParseFile(file0)

\* C3 as stated: when send_to_channel returned False for X, X is not in the
\* store, and a later pass that fetches X selects X.
C3_Original ==
    /\ (pc = "DELAY" /\ ~ok) => Cur \notin Store
    /\ InLoop =>
         \A x \in retry : x \in Range(products) => x \in Range(new_products)

\* C3 amended: when send_to_channel returned False for X and X had not been
\* recorded before, X is not in the store after that pass, and the next pass
\* that fetches X selects X.
C3_FailedNotRecorded ==
    /\ (pc = "DELAY" /\ ~ok /\ Cur \notin ParseFile(file0)) => Cur \notin Store
    /\ InLoop =>
         \A x \in retry \ ParseFile(file0) :
            x \in Range(products) => x \in Range(new_products)

\* C3 witness: a product whose send failed in an earlier pass is fetched and
\* selected again.
C3_Witness ==
    /\ pass >= 2
    /\ pc = "FORMAT"
    /\ i = 1
    /\ \E x \in retry : x \in Range(new_products) /\ x \notin Store

\* C4: while the dedup file is read and written without fault, no identifier
\* is sent with success twice.
C4_NoDuplicatePosts ==
    faults = 0 =>
        \A a, b \in 1..Len(delivered) : delivered[a] = delivered[b] => a = b

\* C4 witness: a product sent earlier is fetched again in a later pass in
\* which another product is sent, with no file fault so far.
C4_Witness ==
    /\ faults = 0
    /\ pass >= 2
    /\ pc = "SAVE"
    /\ \E x \in Range(delivered) : x \in Range(products) /\ x # Cur

\* C5 as stated (for runs without a file fault): products are sent with
\* success in the order of their creation upstream (ids grow with creation),
\* within a pass and across passes.
C5_CreationOrder ==
    faults = 0 =>
        \A a, b \in 1..Len(delivered) : a < b => delivered[a] <= delivered[b]

\* C6 as stated: every product of the catalog is recorded in the end, whatever
\* the size of the catalog.
C6_EventuallyPublished ==
    \A x \in Ids : (x \in Range(catalog)) ~> (x \in Store)

\* R holds exactly the entries of F whose id is not in P, in the order of F
IsSelection(F, P, R) ==
    \E f \in [1..Len(R) -> 1..Len(F)] :
        /\ \A a, b \in 1..Len(R) : a < b => f[a] < f[b]
        /\ \A k \in 1..Len(R) : R[k] = F[f[k]]
        /\ {f[k] : k \in 1..Len(R)} = {j \in 1..Len(F) : F[j] \notin P}

\* C7: the selection holds exactly the fetched entries whose id is not in the
\* published set, in their order in the fetched list, and the fetched list and
\* the published set are left as they were.
C7_SelectFilters ==
    /\ [](selDone => IsSelection(selF, selP, selR))
    /\ [][selF' = selF /\ selP' = selP]_vars

\* C7 witness: a selection that drops some entries and keeps others, one of
\* them twice.
C7_Witness ==
    /\ selDone
    /\ Len(selF) = 3
    /\ Len(selR) = 2
    /\ selR[1] = selR[2]
    /\ selP # {}

\* C8: a "retry after" answer puts the call to sleep and the same call then
\* sends the same payload again, however many times this repeats: the caller
\* starts no other send in between, and the call returns False only after an
\* answer that is another failure.
C8_RateLimitRetry ==
    /\ []((pc = "DELAY" /\ ~ok) => resp = "error")
    /\ [][(pc = "SEND" /\ resp' = "retry_after") =>
             (pc' = "BACKOFF" /\ payload' = payload /\ ok' = ok)]_vars
    /\ [][pc = "BACKOFF" =>
             (/\ pc' = "SEND"
              /\ payload' = payload
              /\ i' = i
              /\ new_products' = new_products
              /\ tried' = tried
              /\ delivered' = delivered)]_vars

\* the fetch of the running pass failed
FetchFailed == fetchStatus \in {"error", "malformed"}

\* C9: a pass whose fetch fails calls send_to_channel for nothing and leaves
\* the dedup file as it was, goes to sleep, and the loop starts the next pass.
C9_FetchFailure ==
    /\ [](FetchFailed =>
            /\ pc \in {"SELECT", "SLEEPING"}
            /\ tried = <<>>
            /\ new_products = <<>>
            /\ file = file0)
    /\ (FetchFailed ~> (pc = "SLEEPING"))
    /\ ((FetchFailed /\ pc = "SLEEPING") ~> (pc = "LOAD"))

\* C9 witness: a fetch fails while products are recorded and others are not.
C9_Witness ==
    /\ pc = "SLEEPING"
    /\ fetchStatus = "error"
    /\ Store # {}
    /\ \E x \in Range(catalog) : x \notin Store

\* C10: every pass ends in SLEEPING, also one cut short by an exception, and
\* after SLEEPING the loop starts another pass.
C10_NoTerminalState ==
    /\ [](exc => pc = "SLEEPING")
    /\ ((pc # "SLEEPING") ~> (pc = "SLEEPING"))
    /\ ((pc = "SLEEPING") ~> (pc = "LOAD"))

\* C10 witness: a pass cut short by an exception after a send is asleep.
C10_Witness ==
    /\ pc = "SLEEPING"
    /\ exc
    /\ tried # <<>>
    /\ i < Len(new_products)

\* ---------------------------------------------------------------- store alone
MaxRecId == 11       \* largest id handed to save_sent_id in the isolated store run
MaxRecords == 3      \* save_sent_id calls in the isolated store run

\* no file yet (or an empty one), nothing recorded
InitStore ==
    /\ impl \in {T22, BBB}
    /\ serverOrder = "asc"
    /\ catalog = <<>>
    /\ file = <<>>
    /\ pc = "LOAD"
    /\ sent_ids = {}
    /\ products = <<>>
    /\ new_products = <<>>
    /\ i = 0
    /\ payload = NoPayload
    /\ attempt = 0
    /\ ok = FALSE
    /\ resp = "none"
    /\ fetchStatus = "none"
    /\ exc = FALSE
    /\ loaded = FALSE
    /\ faults = 0
    /\ pass = 1
    /\ succeeded = {}
    /\ delivered = <<>>
    /\ retry = {}
    /\ unsaved = {}
    /\ tried = <<>>
    /\ file0 = <<>>
    /\ seenSent = {}
    /\ killed = {}
    /\ selF = <<>> /\ selP = {} /\ selR = <<>> /\ selDone = FALSE
    /\ recorded = {} /\ reloaded = [n |-> 0, ids |-> {}]

\* save_sent_id(pid), the write going through
RecordId(pid) ==
    /\ Len(file) < MaxRecords
    /\ file' = AppendLine(file, pid)
    /\ recorded' = recorded \cup {pid}
    /\ UNCHANGED <<impl, serverOrder, catalog, pc, sent_ids, products, new_products, i,
                   payload, attempt, ok, resp, fetchStatus, exc, loaded, faults, pass,
                   succeeded, delivered, retry, unsaved, tried, file0, seenSent, killed,
                   selF, selP, selR, selDone, reloaded>>

\* load_sent_ids(), the read going through
LoadBack ==
    /\ reloaded' = [n |-> Len(file), ids |-> ParseFile(file)]
    /\ UNCHANGED <<progVars, selF, selP, selR, selDone, recorded>>

NextStore == (\E pid \in 0..MaxRecId : RecordId(pid)) \/ LoadBack

StoreSpec == InitStore /\ [][NextStore]_vars

\* C11: from an empty or absent file, after any sequence of save_sent_id calls
\* (repeats allowed) load_sent_ids answers exactly the set of the ids saved.
C11_RoundTrip == reloaded.n = Len(file) => reloaded.ids = recorded

\* C11 witness: a load after three saves of two ids, one of them of two
\* digits.
C11_Witness ==
    /\ Len(file) = 3
    /\ reloaded.n = 3
    /\ reloaded.ids = recorded
    /\ Cardinality(recorded) = 2
    /\ \E x \in recorded : x >= 10

\* C12 as stated: the request of a fetch that was answered asks for a page of
\* per_page products, ordered by date, oldest first, and carries the
\* credential pair.
C12_FetchRequest ==
    fetchStatus = "ok" =>
        /\ Request(impl).auth
        /\ Request(impl).per_page = PerPage
        /\ Request(impl).orderby = "date"
        /\ Request(impl).order = "asc"

C14_WriteFailureSwallowed ==
    [][(pc = "SAVE" /\ faults' = faults + 1) =>
         (pc' = "DELAY" /\ exc' = exc /\ unsaved' = unsaved \cup {Cur})]_vars

\* C15: load_sent_ids never raises: when the file cannot be read or parsed it
\* answers the empty set and the pass goes on to the fetch.
C15_LoadNeverRaises ==
    [][(pc = "LOAD" /\ faults' = faults + 1) =>
         (sent_ids' = {} /\ pc' = "FETCH" /\ exc' = exc)]_vars

\* C16 as stated: the set of sent ids a pass hands to the selection contains
\* the set every earlier pass handed to it.
C16_Original == pc = "SELECT" => seenSent \subseteq sent_ids

\* C16 amended: the durable store never loses an id, and a pass whose load
\* read the file hands the selection a set that contains the set of every
\* earlier pass.
C16_StoreGrows ==
    /\ []((pc = "SELECT" /\ loaded) => seenSent \subseteq sent_ids)
    /\ [](loaded => sent_ids = ParseFile(file0))
    /\ [][Store \subseteq Store']_vars

\* C16 witness: a third pass is about to select with a set that read the file
\* and is strictly larger than what the earlier passes used.
C16_Witness ==
    /\ pc = "SELECT"
    /\ loaded
    /\ seenSent # {}
    /\ seenSent # sent_ids
    /\ seenSent \subseteq sent_ids

\* C17: a product is sent with success a second time after a kill that fell
\* between the send's success and save_sent_id: it is not in the file, so the
\* next pass that fetches it selects it again.  While the file is read and
\* written without fault, a kill at any other point leads to no second send:
\* every product sent twice was hit by such a kill.
C17_AtLeastOnceAcrossKill ==
    /\ \A x \in killed :
          (InLoop /\ x \notin Store /\ x \in Range(products)) =>
              x \in Range(new_products)
    /\ faults = 0 =>
          \A a, b \in 1..Len(delivered) :
              (delivered[a] = delivered[b] /\ a # b) => delivered[a] \in killed

\* C17 witness: without any file fault, a product was killed between send and
\* save, then selected, sent and recorded by the pass after the restart.
C17_Witness ==
    /\ faults = 0
    /\ pc = "DELAY"
    /\ Cur \in killed
    /\ Cur \in Store
    /\ \E a, b \in 1..Len(delivered) :
          a # b /\ delivered[a] = Cur /\ delivered[b] = Cur

\* C18: a send_to_channel call returns only on an attempt that the channel
\* answers with success or with a failure other than "retry after", and it
\* returns a boolean to its caller; as long as the channel answers
\* "retry after" the call goes on: no other product is tried and the loop
\* does not reach its sleep.
C18_ReturnsOnlyWhenCleared ==
    /\ [][(pc \in {"SEND", "BACKOFF"} /\ pc' \notin {"SEND", "BACKOFF"}) =>
             (resp' \in {"ok", "error"} /\ pc' = AfterSend(ok'))]_vars
    /\ [][(pc = "BACKOFF" /\ resp = "retry_after") =>
             (pc' = "SEND" /\ tried' = tried /\ payload' = payload)]_vars

\* the products one pass of im tries, in order, for catalog cat, sent ids P
\* and a server whose own order is dflt
PassWalk(im, cat, P, dflt) == Walk(im, Select(Serve(Request(im), cat, dflt), P))

\* the other of the two files
Other(im) == IF im = T22 THEN BBB ELSE T22

\* C19: on a catalog that fits one page, for the same set of sent ids, the
\* pass of testing22.py and the pass of bbbbbaqiap92s.py try the same
\* products in the same order.
C19_PassesEquivalent ==
    (pc = "SELECT" /\ fetchStatus = "ok" /\ Len(catalog) <= PerPage) =>
        Walk(impl, Select(products, sent_ids))
            = PassWalk(Other(impl), catalog, sent_ids, serverOrder)
====
